---- MODULE Spec2Model ----
(***************************************************************************)
(* Model of configure_cors.py: a script that makes sure the                *)
(* google-cloud-storage client library is importable (installing it with   *)
(* pip when it is not) and then replaces the CORS rule list of one Firebase*)
(* Storage bucket by a fixed one-rule literal with a single patch request. *)
(*                                                                         *)
(* One behaviour of the model is a series of process runs of the script    *)
(* against the same environment: the local package environment (pkg) and   *)
(* the remote bucket (remoteCors) persist from one run to the next, the    *)
(* locals, the standard output and the exit status belong to one run.      *)
(***************************************************************************)
EXTENDS Integers, Sequences, FiniteSets, TLC

VARIABLES
    pc,             \* position of the running process in the script
    runs,           \* number of process runs started so far
    pkg,            \* local package environment: state of google-cloud-storage
    remoteCors,     \* CORS rule list stored on the remote bucket
    startCors,      \* remoteCors as it was when the current run started
    installResult,  \* value returned by install_gcloud_storage ("none" before)
    result,         \* value returned by configure_cors ("none" before)
    client,         \* TRUE once storage.Client() has returned
    bucketName,     \* name of the bucket handle ("" while there is none)
    bucketCors,     \* the handle's local cors attribute
    corsAssigned,   \* TRUE once bucket.cors has been assigned
    exc,            \* the exception being handled or propagated ("" if none)
    out,            \* lines printed by the current run
    exitCode,       \* process exit status (-1 while running)
    installCalls,   \* installer subprocess invocations in the current run
    patchCalls,     \* patch requests sent in the current run
    steps,          \* steps of the run attempted so far, in order
    failedAt,       \* the step whose failure was met first ("" if none)
    ensurerImport,  \* what the import in install_gcloud_storage did ("none" before)
    installerOutcome, \* what the installer subprocess did ("none" if not invoked)
    argv,           \* command line of the installer subprocess (<< >> if not invoked)
    startPkg,       \* pkg as it was when the current run started
    successes,      \* runs so far whose patch returned normally
    afterFirst      \* remoteCors right after the first such run

vars == <<pc, runs, pkg, remoteCors, startCors, installResult, result, client,
          bucketName, bucketCors, corsAssigned, exc, out, exitCode,
          installCalls, patchCalls, steps, failedAt, ensurerImport,
          installerOutcome, argv, startPkg, successes, afterFirst>>

\* Number of process runs explored in one behaviour.
MaxRuns == 2

(***************************************************************************)
(* The constants of the script.                                            *)
(***************************************************************************)
cors_config ==
    << [ origin |-> << "http://localhost:5174",
                       "http://localhost:5173",
                       "http://localhost:3000",
                       "http://localhost:8080",
                       "https://lamah-357f3.web.app",
                       "https://lamah-357f3.firebaseapp.com" >>,
         method |-> << "GET", "HEAD" >>,
         maxAgeSeconds |-> 3600,
         responseHeader |-> << "Content-Type" >> ] >>

bucket_name == "lamah-357f3.appspot.com"

(***************************************************************************)
(* The environment.                                                        *)
(***************************************************************************)
\* A rule somebody else may have stored on the bucket before.
OtherRule ==
    [ origin |-> << "*" >>,
      method |-> << "GET", "PUT" >>,
      maxAgeSeconds |-> 60,
      responseHeader |-> << >> ]

\* CORS rule lists the remote bucket may hold before the first run.
InitialCors ==
    { << >>, << OtherRule >>, cors_config, cors_config \o << OtherRule >> }

\* "present": import succeeds; "absent": import raises ImportError;
\* "broken": the package is there but importing it raises something that is
\* not an ImportError (an incompatible transitive dependency, for instance).
PkgStates == { "present", "absent", "broken" }

\* What `import google.cloud.storage` does in a package environment.
ImportOutcome(p) ==
    CASE p = "present" -> "ok"
      [] p = "absent"  -> "ImportError"
      [] OTHER         -> "TypeError"

\* What subprocess.check_call can do: the child exits with status 0, the
\* child exits with a nonzero status (CalledProcessError), or the child
\* cannot be launched at all (OSError).
InstallerOutcomes == { "exit0", "CalledProcessError", "OSError" }

\* The installer's command line: pip of the running interpreter.
InstallerArgv ==
    << "sys.executable", "-m", "pip", "install", "google-cloud-storage" >>

\* A printed line: the fixed text and the values formatted into it.
Line(text, arg) == [ text |-> text, arg |-> arg ]

\* The order of the steps of one run.
StepOrder == << "ensurer", "import", "client", "bucket", "assign", "patch" >>

\* The steps of the remote interaction, the import of the storage module
\* that opens the try block included.
RemoteSteps == { "import", "client", "bucket", "assign", "patch" }

Init ==
    /\ pc = "start"
    /\ runs = 1
    /\ pkg \in PkgStates
    /\ remoteCors \in InitialCors
    /\ startCors = remoteCors
    /\ installResult = "none"
    /\ result = "none"
    /\ client = FALSE
    /\ bucketName = ""
    /\ bucketCors = << >>
    /\ corsAssigned = FALSE
    /\ exc = ""
    /\ out = << >>
    /\ exitCode = -1
    /\ installCalls = 0
    /\ patchCalls = 0
    /\ steps = << >>
    /\ failedAt = ""
    /\ ensurerImport = "none"
    /\ installerOutcome = "none"
    /\ argv = << >>
    /\ startPkg = pkg
    /\ successes = 0
    /\ afterFirst = << >>

\* An exception nothing catches: the interpreter prints a traceback and the
\* process ends with status 1.
Uncaught(e) ==
    /\ exc' = e
    /\ pc' = "exit"
    /\ exitCode' = 1

\* __main__, first half: the banner, then the call of configure_cors, which
\* starts by calling install_gcloud_storage.
Main ==
    /\ pc = "start"
    /\ out' = Append(out, Line("Configuring Firebase Storage CORS...", << >>))
    /\ steps' = Append(steps, "ensurer")
    /\ pc' = "install_import"
    /\ UNCHANGED <<ensurerImport, installerOutcome, argv, startPkg, runs,
                   pkg, remoteCors, startCors, installResult, result,
                   client, bucketName, bucketCors, corsAssigned, exc, exitCode,
                   installCalls, patchCalls, failedAt, successes, afterFirst>>

\* install_gcloud_storage: the import attempt and its ImportError handler.
InstallImportMut ==
    /\ pc = "install_import"
    /\ ensurerImport' = ImportOutcome(pkg)
    /\ \/ /\ ImportOutcome(pkg) \in { "ok", "ImportError" }
          /\ out' = Append(out, Line("Installing google-cloud-storage...", << >>))
          /\ pc' = "install_pip"
          /\ UNCHANGED <<installResult, exc, exitCode, failedAt>>
       \/ /\ ImportOutcome(pkg) \notin { "ok", "ImportError" }
          /\ failedAt' = "ensurer"
          /\ Uncaught(ImportOutcome(pkg))
          /\ UNCHANGED <<installResult, out>>
    /\ UNCHANGED <<installerOutcome, argv, startPkg, runs,
                   pkg, remoteCors, startCors, result, client,
                   bucketName, bucketCors, corsAssigned, installCalls,
                   patchCalls, steps, successes, afterFirst>>

InstallImport ==
    /\ pc = "install_import"
    /\ ensurerImport' = ImportOutcome(pkg)
    /\ \/ /\ ImportOutcome(pkg) = "ok"
          /\ out' = Append(out, Line("google-cloud-storage is already installed", << >>))
          /\ installResult' = "True"
          /\ pc' = "cc_check"
          /\ UNCHANGED <<exc, exitCode, failedAt>>
       \/ /\ ImportOutcome(pkg) = "ImportError"
          /\ out' = Append(out, Line("Installing google-cloud-storage...", << >>))
          /\ pc' = "install_pip"
          /\ UNCHANGED <<installResult, exc, exitCode, failedAt>>
       \/ /\ ImportOutcome(pkg) \notin { "ok", "ImportError" }
          /\ failedAt' = "ensurer"
          /\ Uncaught(ImportOutcome(pkg))
          /\ UNCHANGED <<installResult, out>>
    /\ UNCHANGED <<installerOutcome, argv, startPkg, runs,
                   pkg, remoteCors, startCors, result, client,
                   bucketName, bucketCors, corsAssigned, installCalls,
                   patchCalls, steps, successes, afterFirst>>

\* The value install_gcloud_storage returns for an installer that was
\* launched and has exited: True after check_call returned, False from the
\* CalledProcessError handler.
PipResultMut(outcome) == "True"

PipResult(outcome) == IF outcome = "exit0" THEN "True" ELSE "False"

\* install_gcloud_storage: the installer subprocess and its
\* CalledProcessError handler.  A successful installer leaves the package
\* environment in any state (the new package may still fail to import).
InstallPipRetry ==
    /\ pc = "install_pip"
    /\ installCalls' = installCalls + 1
    /\ argv' = InstallerArgv
    /\ \E outcome \in InstallerOutcomes :
      /\ installerOutcome' = outcome
      /\ \/ /\ outcome = "exit0"
            /\ \E p \in PkgStates : pkg' = p
            /\ out' = Append(out, Line("google-cloud-storage installed successfully", << >>))
            /\ installResult' = PipResult(outcome)
            /\ pc' = "cc_check"
            /\ UNCHANGED <<exc, exitCode, failedAt>>
         \/ /\ outcome = "CalledProcessError"
            /\ out' = Append(out, Line("Failed to install google-cloud-storage: ", << outcome >>))
            /\ IF installCalls = 0
                  THEN /\ pc' = "install_pip"
                       /\ UNCHANGED <<installResult, failedAt>>
                  ELSE /\ installResult' = PipResult(outcome)
                       /\ failedAt' = "ensurer"
                       /\ pc' = "cc_check"
            /\ UNCHANGED <<pkg, exc, exitCode>>
         \/ /\ outcome = "OSError"
            /\ failedAt' = "ensurer"
            /\ Uncaught(outcome)
            /\ UNCHANGED <<pkg, out, installResult>>
    /\ UNCHANGED <<ensurerImport, startPkg, runs,
                   remoteCors, startCors, result, client, bucketName,
                   bucketCors, corsAssigned, patchCalls, steps, successes,
                   afterFirst>>

InstallPipNoHandler ==
    /\ pc = "install_pip"
    /\ installCalls' = installCalls + 1
    /\ argv' = InstallerArgv
    /\ \E outcome \in InstallerOutcomes :
      /\ installerOutcome' = outcome
      /\ \/ /\ outcome = "exit0"
            /\ \E p \in PkgStates : pkg' = p
            /\ out' = Append(out, Line("google-cloud-storage installed successfully", << >>))
            /\ installResult' = PipResult(outcome)
            /\ pc' = "cc_check"
            /\ UNCHANGED <<exc, exitCode, failedAt>>
         \/ /\ outcome \in { "CalledProcessError", "OSError" }
            /\ failedAt' = "ensurer"
            /\ Uncaught(outcome)
            /\ UNCHANGED <<pkg, out, installResult>>
    /\ UNCHANGED <<ensurerImport, startPkg, runs,
                   remoteCors, startCors, result, client, bucketName,
                   bucketCors, corsAssigned, patchCalls, steps, successes,
                   afterFirst>>

InstallPip ==
    /\ pc = "install_pip"
    /\ installCalls' = installCalls + 1
    /\ argv' = InstallerArgv
    /\ \E outcome \in InstallerOutcomes :
      /\ installerOutcome' = outcome
      /\ \/ /\ outcome = "exit0"
            /\ \E p \in PkgStates : pkg' = p
            /\ out' = Append(out, Line("google-cloud-storage installed successfully", << >>))
            /\ installResult' = PipResult(outcome)
            /\ pc' = "cc_check"
            /\ UNCHANGED <<exc, exitCode, failedAt>>
         \/ /\ outcome = "CalledProcessError"
            /\ out' = Append(out, Line("Failed to install google-cloud-storage: ", << outcome >>))
            /\ installResult' = PipResult(outcome)
            /\ failedAt' = "ensurer"
            /\ pc' = "cc_check"
            /\ UNCHANGED <<pkg, exc, exitCode>>
         \/ /\ outcome = "OSError"
            /\ failedAt' = "ensurer"
            /\ Uncaught(outcome)
            /\ UNCHANGED <<pkg, out, installResult>>
    /\ UNCHANGED <<ensurerImport, startPkg, runs,
                   remoteCors, startCors, result, client, bucketName,
                   bucketCors, corsAssigned, patchCalls, steps, successes,
                   afterFirst>>

\* configure_cors: `if not install_gcloud_storage(): return False`.
CheckInstallIgnore ==
    /\ pc = "cc_check"
    /\ pc' = "cc_import"
    /\ steps' = Append(steps, "import")
    /\ UNCHANGED result
    /\ UNCHANGED <<ensurerImport, installerOutcome, argv, startPkg, runs,
                   pkg, remoteCors, startCors, installResult, client,
                   bucketName, bucketCors, corsAssigned, exc, out, exitCode,
                   installCalls, patchCalls, failedAt, successes, afterFirst>>

CheckInstall ==
    /\ pc = "cc_check"
    /\ IF installResult = "True"
          THEN /\ pc' = "cc_import"
               /\ steps' = Append(steps, "import")
               /\ UNCHANGED result
          ELSE /\ result' = "False"
               /\ pc' = "main_report"
               /\ UNCHANGED steps
    /\ UNCHANGED <<ensurerImport, installerOutcome, argv, startPkg, runs,
                   pkg, remoteCors, startCors, installResult, client,
                   bucketName, bucketCors, corsAssigned, exc, out, exitCode,
                   installCalls, patchCalls, failedAt, successes, afterFirst>>

\* A statement of the try block raises: control goes to `except Exception`.
Raise(step, e) ==
    /\ exc' = e
    /\ failedAt' = step
    /\ pc' = "cc_except"

\* configure_cors: `from google.cloud import storage`, inside the try block.
CcImport ==
    /\ pc = "cc_import"
    /\ IF ImportOutcome(pkg) = "ok"
          THEN /\ pc' = "cc_client"
               /\ steps' = Append(steps, "client")
               /\ UNCHANGED <<exc, failedAt>>
          ELSE /\ Raise("import", ImportOutcome(pkg))
               /\ UNCHANGED steps
    /\ UNCHANGED <<ensurerImport, installerOutcome, argv, startPkg, runs,
                   pkg, remoteCors, startCors, installResult, result,
                   client, bucketName, bucketCors, corsAssigned, out, exitCode,
                   installCalls, patchCalls, successes, afterFirst>>

\* configure_cors: `client = storage.Client()`; resolving the ambient
\* credentials may raise.
CcClient ==
    /\ pc = "cc_client"
    /\ \/ /\ client' = TRUE
          /\ pc' = "cc_bucket"
          /\ steps' = Append(steps, "bucket")
          /\ UNCHANGED <<exc, failedAt>>
       \/ /\ Raise("client", "DefaultCredentialsError")
          /\ UNCHANGED <<client, steps>>
    /\ UNCHANGED <<ensurerImport, installerOutcome, argv, startPkg, runs,
                   pkg, remoteCors, startCors, installResult, result,
                   bucketName, bucketCors, corsAssigned, out, exitCode,
                   installCalls, patchCalls, successes, afterFirst>>

\* configure_cors: `bucket = client.bucket(bucket_name)`; a local handle, no
\* request is sent.
CcBucket ==
    /\ pc = "cc_bucket"
    /\ \/ /\ bucketName' = bucket_name
          /\ pc' = "cc_assign"
          /\ steps' = Append(steps, "assign")
          /\ UNCHANGED <<exc, failedAt>>
       \/ /\ Raise("bucket", "ValueError")
          /\ UNCHANGED <<bucketName, steps>>
    /\ UNCHANGED <<ensurerImport, installerOutcome, argv, startPkg, runs,
                   pkg, remoteCors, startCors, installResult, result,
                   client, bucketCors, corsAssigned, out, exitCode,
                   installCalls, patchCalls, successes, afterFirst>>

\* configure_cors: `bucket.cors = cors_config`; changes the local handle only.
CcAssignWriteThrough ==
    /\ pc = "cc_assign"
    /\ \/ /\ bucketCors' = cors_config
          /\ corsAssigned' = TRUE
          /\ remoteCors' = cors_config
          /\ pc' = "cc_patch"
          /\ steps' = Append(steps, "patch")
          /\ UNCHANGED <<exc, failedAt>>
       \/ /\ Raise("assign", "TypeError")
          /\ remoteCors' = cors_config
          /\ UNCHANGED <<bucketCors, corsAssigned, steps>>
    /\ UNCHANGED <<ensurerImport, installerOutcome, argv, startPkg, runs,
                   pkg, startCors, installResult, result,
                   client, bucketName, out, exitCode, installCalls, patchCalls,
                   successes, afterFirst>>

CcAssign ==
    /\ pc = "cc_assign"
    /\ \/ /\ bucketCors' = cors_config
          /\ corsAssigned' = TRUE
          /\ pc' = "cc_patch"
          /\ steps' = Append(steps, "patch")
          /\ UNCHANGED <<exc, failedAt>>
       \/ /\ Raise("assign", "TypeError")
          /\ UNCHANGED <<bucketCors, corsAssigned, steps>>
    /\ UNCHANGED <<ensurerImport, installerOutcome, argv, startPkg, runs,
                   pkg, remoteCors, startCors, installResult, result,
                   client, bucketName, out, exitCode, installCalls, patchCalls,
                   successes, afterFirst>>

\* The rule list the bucket holds after a patch request carrying the
\* handle's changed cors property was applied: the property is replaced.
PatchedMerge(remote, sent) == remote \o sent

Patched(remote, sent) == sent

\* configure_cors: `bucket.patch()`.  The request either is applied and
\* answered, fails before it is applied, or is applied while the answer is
\* lost; the last two raise.
CcPatch ==
    /\ pc = "cc_patch"
    /\ patchCalls' = patchCalls + 1
    /\ \/ /\ remoteCors' = IF corsAssigned THEN Patched(remoteCors, bucketCors)
                                            ELSE remoteCors
          /\ successes' = successes + 1
          /\ afterFirst' = IF successes = 0 THEN remoteCors' ELSE afterFirst
          /\ pc' = "cc_summary"
          /\ UNCHANGED <<exc, failedAt>>
       \/ /\ Raise("patch", "Forbidden")
          /\ UNCHANGED <<remoteCors, successes, afterFirst>>
       \/ /\ Raise("patch", "ConnectionError")
          /\ remoteCors' = IF corsAssigned THEN Patched(remoteCors, bucketCors)
                                            ELSE remoteCors
          /\ UNCHANGED <<successes, afterFirst>>
    /\ UNCHANGED <<ensurerImport, installerOutcome, argv, startPkg, runs,
                   pkg, startCors, installResult, result, client,
                   bucketName, bucketCors, corsAssigned, out, exitCode,
                   installCalls, steps>>

\* Decimal formatting of a natural number, as an f-string does it.
Digit(d) == << "0", "1", "2", "3", "4", "5", "6", "7", "8", "9" >>[d + 1]

RECURSIVE IntStr(_)
IntStr(n) == IF n < 10 THEN Digit(n) ELSE IntStr(n \div 10) \o Digit(n % 10)

\* The three lines the summary loop prints for one rule.
RuleLinesMut(rule) ==
    << Line("   Origins: ", rule.origin),
       Line("   Methods: ", rule.responseHeader),
       Line("   Max Age:  seconds", << IntStr(rule.maxAgeSeconds) >>) >>

RuleLines(rule) ==
    << Line("   Origins: ", rule.origin),
       Line("   Methods: ", rule.method),
       Line("   Max Age:  seconds", << IntStr(rule.maxAgeSeconds) >>) >>

RECURSIVE SummaryLines(_)
SummaryLines(rules) ==
    IF rules = << >> THEN << >>
    ELSE RuleLines(Head(rules)) \o SummaryLines(Tail(rules))

\* configure_cors: the success message, the summary loop over cors_config,
\* and `return True`.
CcSummary ==
    /\ pc = "cc_summary"
    /\ out' = out \o << Line("CORS configuration applied successfully!", << >>),
                        Line("CORS settings:", << >>) >>
                  \o SummaryLines(cors_config)
    /\ result' = "True"
    /\ pc' = "main_report"
    /\ UNCHANGED <<ensurerImport, installerOutcome, argv, startPkg, runs,
                   pkg, remoteCors, startCors, installResult, client,
                   bucketName, bucketCors, corsAssigned, exc, exitCode,
                   installCalls, patchCalls, steps, failedAt, successes,
                   afterFirst>>

\* The lines the exception handler prints.
FallbackLines ==
    << Line("\nAlternative solutions:", << >>),
       Line("1. Install Google Cloud SDK and use gsutil", << >>),
       Line("2. Use Firebase Console (web interface)", << >>),
       Line("3. Use the Service Worker approach we implemented", << >>) >>

\* configure_cors: `except Exception as e`; prints the error and the
\* fallback suggestions and returns False.
CcExceptReraise ==
    /\ pc = "cc_except"
    /\ out' = Append(out, Line("Failed to configure CORS: ", << exc >>))
                  \o FallbackLines
    /\ pc' = "exit"
    /\ exitCode' = 1
    /\ UNCHANGED <<ensurerImport, installerOutcome, argv, startPkg, runs,
                   pkg, remoteCors, startCors, installResult, client,
                   bucketName, bucketCors, corsAssigned, exc, result,
                   installCalls, patchCalls, steps, failedAt, successes,
                   afterFirst>>

CcExcept ==
    /\ pc = "cc_except"
    /\ out' = Append(out, Line("Failed to configure CORS: ", << exc >>))
                  \o FallbackLines
    /\ result' = "False"
    /\ exc' = ""
    /\ pc' = "main_report"
    /\ UNCHANGED <<ensurerImport, installerOutcome, argv, startPkg, runs,
                   pkg, remoteCors, startCors, installResult, client,
                   bucketName, bucketCors, corsAssigned, exitCode,
                   installCalls, patchCalls, steps, failedAt, successes,
                   afterFirst>>

\* __main__, second half: the closing message; the script then runs off its
\* end and the interpreter exits with status 0.
MainReportExit1 ==
    /\ pc = "main_report"
    /\ IF result = "True"
          THEN /\ out' = out \o << Line("\nCORS configuration complete!", << >>),
                    Line("Now refresh your app and images should cache to localStorage!", << >>) >>
               /\ exitCode' = 0
          ELSE /\ out' = out \o << Line("\nCORS configuration failed.", << >>),
                    Line("Please try the manual gsutil approach or Service Worker solution.", << >>) >>
               /\ exitCode' = 1
    /\ pc' = "exit"
    /\ UNCHANGED <<ensurerImport, installerOutcome, argv, startPkg, runs,
                   pkg, remoteCors, startCors, installResult, result,
                   client, bucketName, bucketCors, corsAssigned, exc,
                   installCalls, patchCalls, steps, failedAt, successes,
                   afterFirst>>

MainReport ==
    /\ pc = "main_report"
    /\ IF result = "True"
          THEN out' = out \o << Line("\nCORS configuration complete!", << >>),
                    Line("Now refresh your app and images should cache to localStorage!", << >>) >>
          ELSE out' = out \o << Line("\nCORS configuration failed.", << >>),
                    Line("Please try the manual gsutil approach or Service Worker solution.", << >>) >>
    /\ pc' = "exit"
    /\ exitCode' = 0
    /\ UNCHANGED <<ensurerImport, installerOutcome, argv, startPkg, runs,
                   pkg, remoteCors, startCors, installResult, result,
                   client, bucketName, bucketCors, corsAssigned, exc,
                   installCalls, patchCalls, steps, failedAt, successes,
                   afterFirst>>

\* The script is invoked again: a fresh process against the environment the
\* earlier runs left behind.
NewRun ==
    /\ pc = "exit"
    /\ runs < MaxRuns
    /\ runs' = runs + 1
    /\ pc' = "start"
    /\ startCors' = remoteCors
    /\ installResult' = "none"
    /\ result' = "none"
    /\ client' = FALSE
    /\ bucketName' = ""
    /\ bucketCors' = << >>
    /\ corsAssigned' = FALSE
    /\ exc' = ""
    /\ out' = << >>
    /\ exitCode' = -1
    /\ installCalls' = 0
    /\ patchCalls' = 0
    /\ steps' = << >>
    /\ failedAt' = ""
    /\ ensurerImport' = "none"
    /\ installerOutcome' = "none"
    /\ argv' = << >>
    /\ startPkg' = pkg
    /\ UNCHANGED <<pkg, remoteCors, successes, afterFirst>>

Next ==
    \/ Main
    \/ InstallImport
    \/ InstallPip
    \/ CheckInstall
    \/ CcImport
    \/ CcClient
    \/ CcBucket
    \/ CcAssign
    \/ CcPatch
    \/ CcSummary
    \/ CcExcept
    \/ MainReport
    \/ NewRun

Spec == Init /\ [][Next]_vars

(***************************************************************************)
(* Auxiliary predicates over the current run.                              *)
(***************************************************************************)
\* install_gcloud_storage is no longer executing.
EnsurerEnded == pc \notin { "start", "install_import", "install_pip" }

\* configure_cors is no longer executing.
ConfigureEnded == pc \in { "main_report", "exit" }

\* The run printed a line with this text.
Printed(text) == \E i \in 1..Len(out) : out[i].text = text

\* The lines ls appear in the output, consecutively, from position i on.
PrintedAt(i, ls) ==
    /\ i + Len(ls) - 1 <= Len(out)
    /\ \A k \in 1..Len(ls) :
         /\ out[i + k - 1].text = ls[k].text
         /\ out[i + k - 1].arg = ls[k].arg

PrintedLines(ls) == \E i \in 1..Len(out) : PrintedAt(i, ls)

\* s is an initial segment of t.
IsPrefix(s, t) == Len(s) <= Len(t) /\ SubSeq(t, 1, Len(s)) = s

\* No step of the remote interaction has been attempted.
NoRemoteStep ==
    /\ ~client
    /\ bucketName = ""
    /\ ~corsAssigned
    /\ patchCalls = 0
    /\ \A i \in 1..Len(steps) : steps[i] \notin RemoteSteps

(***************************************************************************)
(* C1: when the dependency is absent and the installer exits with a        *)
(* nonzero status, install_gcloud_storage returns False, configure_cors    *)
(* returns False and no step of the remote interaction is attempted: no    *)
(* client, no bucket handle, no assignment of bucket.cors, no patch.       *)
(***************************************************************************)
C1_InstallFailureAborts ==
    (ensurerImport = "ImportError" /\ installerOutcome = "CalledProcessError") =>
        /\ installResult = "False"
        /\ NoRemoteStep
        /\ remoteCors = startCors
        /\ result # "True"
        /\ ConfigureEnded => result = "False"

C1_Witness ==
    /\ pc = "exit"
    /\ ensurerImport = "ImportError"
    /\ installerOutcome = "CalledProcessError"
    /\ result = "False"

(***************************************************************************)
(* C2: whichever step of the try block raises (the import of the storage   *)
(* module, the client constructor, the bucket handle, the assignment of    *)
(* the CORS attribute, the patch), configure_cors returns False, prints    *)
(* the error and the fallback suggestions, and no exception reaches the    *)
(* process boundary.                                                       *)
(***************************************************************************)
C2_RemoteFailureCaught ==
    (failedAt \in RemoteSteps /\ pc # "cc_except") =>
        /\ ConfigureEnded
        /\ result = "False"
        /\ exc = ""
        /\ Printed("Failed to configure CORS: ")
        /\ PrintedLines(FallbackLines)
        /\ pc = "exit" => exitCode = 0

C2_Witness ==
    /\ pc = "exit"
    /\ failedAt = "client"
    /\ result = "False"
    /\ PrintedLines(FallbackLines)

(***************************************************************************)
(* C3, as stated: install_gcloud_storage propagates no exception; for      *)
(* every outcome of the import and of the installer invocation, a failure  *)
(* to launch the installer included, the caller receives a boolean.        *)
(***************************************************************************)
C3_Original ==
    EnsurerEnded => installResult \in { "True", "False" }

(***************************************************************************)
(* C3, amended: install_gcloud_storage returns a boolean whenever the      *)
(* import succeeds or raises ImportError and the installer, if invoked,    *)
(* was launched and exited; a nonzero exit is turned into a printed        *)
(* message and False.  It propagates the exception, and returns nothing,   *)
(* exactly when the import raises something other than ImportError or the  *)
(* installer cannot be launched.                                           *)
(***************************************************************************)
EnsurerEscapes ==
    \/ ensurerImport \notin { "none", "ok", "ImportError" }
    \/ installerOutcome = "OSError"

C3_BooleanUnlessEscapes ==
    EnsurerEnded =>
        /\ installResult \in { "True", "False" } <=> ~EnsurerEscapes
        /\ EnsurerEscapes => (pc = "exit" /\ exc # "" /\ result = "none")
        /\ installerOutcome = "CalledProcessError" =>
              /\ installResult = "False"
              /\ Printed("Failed to install google-cloud-storage: ")

C3_Witness ==
    /\ pc = "cc_check"
    /\ installerOutcome = "CalledProcessError"
    /\ installResult = "False"

(***************************************************************************)
(* C4, as stated: the process exit code is 0 in every run.                 *)
(***************************************************************************)
C4_Original ==
    pc = "exit" => exitCode = 0

(***************************************************************************)
(* C4, amended: the exit code is 0 in every run in which configure_cors    *)
(* returns, whether True (success) or False (installer exited nonzero, or  *)
(* a step of the try block raised); the exit code is nonzero exactly in    *)
(* the runs in which install_gcloud_storage lets an exception escape.      *)
(***************************************************************************)
C4_ExitZeroWhenReturned ==
    pc = "exit" =>
        /\ result \in { "True", "False" } => exitCode = 0
        /\ exitCode # 0 <=> EnsurerEscapes
        /\ exitCode \in { 0, 1 }

C4_Witness ==
    /\ pc = "exit"
    /\ result = "False"
    /\ exitCode = 0
    /\ failedAt = "patch"

(***************************************************************************)
(* C5: when the storage library is importable, install_gcloud_storage      *)
(* returns True, the installer subprocess is never invoked and the local   *)
(* package environment stays as it was.                                    *)
(***************************************************************************)
C5_PresentSkipsInstaller ==
    ensurerImport = "ok" =>
        /\ installResult = "True"
        /\ installCalls = 0
        /\ installerOutcome = "none"
        /\ argv = << >>
        /\ pkg = startPkg
        /\ pc # "install_pip"

C5_Witness ==
    /\ pc = "exit"
    /\ ensurerImport = "ok"
    /\ installResult = "True"
    /\ installCalls = 0

(***************************************************************************)
(* C6: when the storage library is not importable (ImportError),           *)
(* install_gcloud_storage invokes pip of the current interpreter, and it   *)
(* returns True exactly when the installer exits with status 0 and False   *)
(* exactly when it exits with a nonzero status.                            *)
(***************************************************************************)
C6_AbsentInstalls ==
    (ensurerImport = "ImportError" /\ pc # "install_pip") =>
        /\ installCalls = 1
        /\ argv = InstallerArgv
        /\ installResult = "True" <=> installerOutcome = "exit0"
        /\ installResult = "False" <=> installerOutcome = "CalledProcessError"

C6_Witness ==
    /\ ensurerImport = "ImportError"
    /\ installerOutcome = "exit0"
    /\ installResult = "True"
    /\ pc = "cc_check"

(***************************************************************************)
(* C7: however many runs patch successfully, and whatever the bucket held  *)
(* before, the remote rule list after each of them is the one left by the  *)
(* first: the one-rule literal, replaced in full, never merged or          *)
(* accumulated.                                                            *)
(***************************************************************************)
C7_IdempotentOverwrite ==
    successes >= 1 =>
        /\ remoteCors = afterFirst
        /\ remoteCors = cors_config
        /\ Len(remoteCors) = 1

C7_Witness ==
    /\ successes = 2
    /\ pc = "exit"
    /\ result = "True"
    /\ startCors = cors_config

(***************************************************************************)
(* C8: configure_cors returns True only when the patch request returned    *)
(* without raising; the summary printed then lists the origins, the        *)
(* methods GET, HEAD and the max-age 3600 of the rule written to the       *)
(* bucket; a run that returns False never prints the success summary.      *)
(***************************************************************************)
C8_SuccessSummary ==
    /\ result = "True" =>
          /\ patchCalls = 1
          /\ failedAt = ""
          /\ corsAssigned
          /\ remoteCors = bucketCors
          /\ Len(bucketCors) = 1
          /\ PrintedLines(
               << Line("CORS configuration applied successfully!", << >>),
                  Line("CORS settings:", << >>),
                  Line("   Origins: ", bucketCors[1].origin),
                  Line("   Methods: ", << "GET", "HEAD" >>),
                  Line("   Max Age:  seconds", << "3600" >>) >>)
          /\ bucketCors[1].method = << "GET", "HEAD" >>
          /\ bucketCors[1].maxAgeSeconds = 3600
    /\ result # "True" =>
          /\ ~Printed("CORS configuration applied successfully!")
          /\ ~Printed("CORS settings:")
          /\ ~Printed("   Origins: ")

C8_Witness ==
    /\ pc = "main_report"
    /\ result = "True"
    /\ Printed("CORS settings:")
    /\ startCors # cors_config

(***************************************************************************)
(* C9: nothing is retried.  In one run the installer is invoked at most    *)
(* once and the patch is sent at most once; the steps are attempted in the *)
(* order ensurer, import, client, bucket handle, assignment, patch; after  *)
(* the first failure no further step is attempted, and a failed installer  *)
(* or patch ends the run with the result False.                            *)
(***************************************************************************)
C9_NoRetryInOrder ==
    /\ installCalls <= 1
    /\ patchCalls <= 1
    /\ IsPrefix(steps, StepOrder)
    /\ failedAt # "" =>
          /\ steps[Len(steps)] = failedAt
          /\ pc \in { "cc_check", "cc_except", "main_report", "exit" }
          /\ result # "True"
    /\ (ConfigureEnded /\ (installerOutcome = "CalledProcessError" \/ failedAt = "patch"))
          => result = "False"

C9_Witness ==
    /\ pc = "exit"
    /\ installCalls = 1
    /\ patchCalls = 1
    /\ failedAt = "patch"
    /\ steps = StepOrder

(***************************************************************************)
(* C10: a run in which a step before the patch request failed (the         *)
(* ensurer, the import, the client, the bucket handle, the assignment)     *)
(* leaves the remote rule list as it found it; the remote rule list        *)
(* differs from its value at the start of the run only once the patch call *)
(* has been reached.                                                       *)
(***************************************************************************)
C10_RemoteUntouchedBeforePatch ==
    /\ failedAt \in { "ensurer", "import", "client", "bucket", "assign" }
          => remoteCors = startCors
    /\ remoteCors # startCors => patchCalls = 1

C10_Witness ==
    /\ pc = "exit"
    /\ result = "False"
    /\ failedAt = "bucket"
    /\ startCors # cors_config
    /\ remoteCors = startCors

====
